---- MODULE Spec2Model ----
(***************************************************************************)
(* Model of scripts/compile-support-docs.py: the batch tool that compiles  *)
(* the .mdx documentation tree into one text file.                         *)
(*                                                                         *)
(* Text is a sequence of one-character strings.  The regular expressions   *)
(* of the script are written as syntax trees and run by a backtracking     *)
(* matcher (ReMatch) that tries the alternatives in the order Python's re  *)
(* module tries them, so greedy and lazy repetition, anchors and groups    *)
(* behave as in the script.                                                *)
(***************************************************************************)
EXTENDS Integers, Sequences, FiniteSets, TLC

VARIABLES
    pc,               \* position of the run / of the function under study
    fs,               \* file system: relative path -> file (content or unreadable)
    mdx_files,        \* compile_docs: sorted list of discovered absolute paths
    idx,              \* compile_docs: number of files visited by the loop
    sections,         \* compile_docs: rendered sections
    processed_count,  \* compile_docs
    skipped_count,    \* compile_docs
    failed_files,     \* compile_docs
    output,           \* compile_docs: returned text
    written,          \* content of the output file, empty while not written
    stdout,           \* messages printed so far
    exit_status,      \* process exit status, -1 while running
    text,             \* input of the function under study
    value,            \* the title value written in the header of text
    content,          \* working text of the function under study
    first,            \* result of the first pass (strip_mdx_components)
    title             \* result of extract_frontmatter_title

vars == <<pc, fs, mdx_files, idx, sections, processed_count, skipped_count,
          failed_files, output, written, stdout, exit_status,
          text, value, content, first, title>>

progVars == <<fs, mdx_files, idx, sections, processed_count, skipped_count,
              failed_files, output, written, stdout, exit_status>>

funVars == <<text, value, content, first, title>>

(***************************************************************************)
(* Characters                                                              *)
(***************************************************************************)

Apostrophe == "'"

\* the character U+0060, which a TLA+ string cannot hold
Backtick == "BACKTICK"

\* the characters of the model in code point order, the order of str comparison
Ascii ==
    <<"\t", "\n", " ", "\"", Apostrophe, "-", ".", "/",
      "0", "1", "2", "3", "4", "5", "6", "7", "8", "9",
      ":", "<", "=", ">",
      "A", "B", "C", "D", "E", "F", "G", "H", "I", "J", "K", "L", "M",
      "N", "O", "P", "Q", "R", "S", "T", "U", "V", "W", "X", "Y", "Z",
      "\\", "_", Backtick,
      "a", "b", "c", "d", "e", "f", "g", "h", "i", "j", "k", "l", "m",
      "n", "o", "p", "q", "r", "s", "t", "u", "v", "w", "x", "y", "z">>

Chars == {Ascii[i] : i \in 1..Len(Ascii)}

Ord(c) == CHOOSE i \in 1..Len(Ascii) : Ascii[i] = c

Digits == <<"0", "1", "2", "3", "4", "5", "6", "7", "8", "9">>

Upper == {Ascii[i] : i \in 23..48}

Lower == {Ascii[i] : i \in 52..77}

\* \s
Space == {" ", "\t", "\n"}

\* str(n) for n >= 0
RECURSIVE Str(_)
Str(n) == IF n < 10 THEN <<Digits[n + 1]>>
          ELSE Str(n \div 10) \o <<Digits[(n % 10) + 1]>>

(***************************************************************************)
(* Regular expressions                                                     *)
(***************************************************************************)

Inf == -1

Set(S) == [t |-> "set", s |-> S]

Lit(c) == Set({c})

Cat(ps) == [t |-> "cat", ps |-> ps]

\* r{min,max}, greedy or lazy
Rep(r, min, max, greedy) ==
    [t |-> "rep", r |-> r, min |-> min, max |-> max, greedy |-> greedy]

Star(r) == Rep(r, 0, Inf, TRUE)

Plus(r) == Rep(r, 1, Inf, TRUE)

Opt(r) == Rep(r, 0, 1, TRUE)

LazyStar(r) == Rep(r, 0, Inf, FALSE)

\* capturing group 1
Grp(r) == [t |-> "grp", r |-> r]

\* ^ without re.MULTILINE
Bos == [t |-> "bos"]

\* ^ with re.MULTILINE
Bol == [t |-> "bol"]

\* $ with re.MULTILINE
Eol == [t |-> "eol"]

Fail == [pos |-> 0, gs |-> 0, ge |-> 0]

\* the length of the longest run of characters of S in s from position i
RunLength(s, i, S) ==
    CHOOSE n \in 0..(Len(s) - i + 1) :
        /\ \A k \in 0..(n - 1) : s[i + k] \in S
        /\ n = Len(s) - i + 1 \/ s[i + n] \notin S

\* The match of the pattern list k on s from state st: the first success in
\* backtracking order, or Fail.  st.pos is the next position to read,
\* st.gs and st.ge delimit group 1.  A repetition of a character set tries
\* its counts from the largest down when greedy, from the smallest up when lazy.
RECURSIVE ReMatch(_, _, _)
ReMatch(k, s, st) ==
    IF k = <<>> THEN st
    ELSE
      LET r == Head(k)
          rest == Tail(k)
      IN CASE r.t = "set" ->
                IF st.pos <= Len(s) /\ s[st.pos] \in r.s
                THEN ReMatch(rest, s, [st EXCEPT !.pos = @ + 1])
                ELSE Fail
           [] r.t = "cat" -> ReMatch(r.ps \o rest, s, st)
           [] r.t = "rep" /\ r.r.t = "set" ->
                LET run == RunLength(s, st.pos, r.r.s)
                    most == IF r.max # Inf /\ r.max < run THEN r.max ELSE run
                    counts == {n \in r.min..most :
                                  ReMatch(rest, s, [st EXCEPT !.pos = @ + n]) # Fail}
                    count == IF r.greedy
                             THEN CHOOSE n \in counts : \A m \in counts : m <= n
                             ELSE CHOOSE n \in counts : \A m \in counts : n <= m
                IN IF counts = {} THEN Fail
                   ELSE ReMatch(rest, s, [st EXCEPT !.pos = @ + count])
           [] r.t = "rep" /\ r.r.t # "set" ->
                LET again == [r EXCEPT !.min = IF @ > 0 THEN @ - 1 ELSE 0,
                                       !.max = IF @ = Inf THEN Inf ELSE @ - 1]
                    more == IF r.max = 0 THEN Fail
                            ELSE ReMatch(<<r.r, again>> \o rest, s, st)
                    stop == IF r.min > 0 THEN Fail ELSE ReMatch(rest, s, st)
                IN IF r.greedy
                   THEN IF more # Fail THEN more ELSE stop
                   ELSE IF stop # Fail THEN stop ELSE more
           [] r.t = "grp" ->
                ReMatch(<<[t |-> "gopen"], r.r, [t |-> "gclose"]>> \o rest, s, st)
           [] r.t = "gopen" -> ReMatch(rest, s, [st EXCEPT !.gs = st.pos])
           [] r.t = "gclose" -> ReMatch(rest, s, [st EXCEPT !.ge = st.pos])
           [] r.t = "bos" ->
                IF st.pos = 1 THEN ReMatch(rest, s, st) ELSE Fail
           [] r.t = "bol" ->
                IF st.pos = 1 \/ s[st.pos - 1] = "\n"
                THEN ReMatch(rest, s, st) ELSE Fail
           [] r.t = "eol" ->
                IF st.pos = Len(s) + 1 \/ s[st.pos] = "\n"
                THEN ReMatch(rest, s, st) ELSE Fail

\* re.match(re, s) started at position i
MatchAt(re, s, i) == ReMatch(<<re>>, s, [pos |-> i, gs |-> 0, ge |-> 0])

\* re.search(re, s): the leftmost match
RECURSIVE SearchFrom(_, _, _)
SearchFrom(re, s, i) ==
    IF i > Len(s) + 1 THEN Fail
    ELSE LET m == MatchAt(re, s, i)
         IN IF m # Fail THEN m ELSE SearchFrom(re, s, i + 1)

Search(re, s) == SearchFrom(re, s, 1)

\* re.sub(re, repl, s) for a pattern that matches no empty string
RECURSIVE SubFrom(_, _, _, _)
SubFrom(re, repl, s, i) ==
    IF i > Len(s) THEN <<>>
    ELSE LET m == MatchAt(re, s, i)
         IN IF m = Fail THEN <<s[i]>> \o SubFrom(re, repl, s, i + 1)
            ELSE repl \o SubFrom(re, repl, s, m.pos)

Sub(re, repl, s) == SubFrom(re, repl, s, 1)

\* s[i:].startswith(p)
StartsWithAt(s, p, i) ==
    /\ i + Len(p) - 1 <= Len(s)
    /\ \A j \in 1..Len(p) : s[i + j - 1] = p[j]

StartsWith(s, p) == StartsWithAt(s, p, 1)

\* s.replace(old, new), old not empty
RECURSIVE ReplaceFrom(_, _, _, _)
ReplaceFrom(s, old, new, i) ==
    IF i > Len(s) THEN <<>>
    ELSE IF StartsWithAt(s, old, i)
         THEN new \o ReplaceFrom(s, old, new, i + Len(old))
         ELSE <<s[i]>> \o ReplaceFrom(s, old, new, i + 1)

Replace(s, old, new) == ReplaceFrom(s, old, new, 1)

\* s.strip()
RECURSIVE LStrip(_)
LStrip(s) == IF s # <<>> /\ Head(s) \in Space THEN LStrip(Tail(s)) ELSE s

RECURSIVE RStrip(_)
RStrip(s) == IF s # <<>> /\ s[Len(s)] \in Space
             THEN RStrip(SubSeq(s, 1, Len(s) - 1)) ELSE s

Strip(s) == RStrip(LStrip(s))

(***************************************************************************)
(* Paths                                                                   *)
(***************************************************************************)

\* str comparison: lexicographic by code point
RECURSIVE StrLess(_, _)
StrLess(a, b) ==
    IF b = <<>> THEN FALSE
    ELSE IF a = <<>> THEN TRUE
    ELSE IF Head(a) = Head(b) THEN StrLess(Tail(a), Tail(b))
    ELSE Ord(Head(a)) < Ord(Head(b))

\* position of the last c in s, 0 if none
RECURSIVE LastIndex(_, _)
LastIndex(s, c) ==
    IF s = <<>> THEN 0
    ELSE IF s[Len(s)] = c THEN Len(s)
    ELSE LastIndex(SubSeq(s, 1, Len(s) - 1), c)

\* Path.name
PathName(p) == SubSeq(p, LastIndex(p, "/") + 1, Len(p))

\* Path.stem: the name without its last suffix
PathStem(p) ==
    LET name == PathName(p)
        dot == LastIndex(name, ".")
    IN IF dot > 1 /\ dot < Len(name) THEN SubSeq(name, 1, dot - 1) ELSE name

\* filepath.relative_to(docs_dir), rendered with str(); filepath lies under docs_dir
RelativeTo(filepath, docs_dir) == SubSeq(filepath, Len(docs_dir) + 2, Len(filepath))

\* get_docs_dir(): the directory above scripts/
DocsDir == <<"/", "d">>

\* docs_dir / rel
Join(docs_dir, rel) == docs_dir \o <<"/">> \o rel

(***************************************************************************)
(* extract_frontmatter_title                                               *)
(***************************************************************************)

Dashes == Cat(<<Lit("-"), Lit("-"), Lit("-")>>)

Quote == Set({"\"", Apostrophe})

\* r'^---\s*\n(.*?)\n---\s*\n' with re.DOTALL
FrontmatterRe ==
    Cat(<<Bos, Dashes, Star(Set(Space)), Lit("\n"), Grp(LazyStar(Set(Chars))),
          Lit("\n"), Dashes, Star(Set(Space)), Lit("\n")>>)

\* r'^title:\s*["\']?([^"\'\n]+)["\']?\s*$' with re.MULTILINE
TitleRe ==
    Cat(<<Bol, Lit("t"), Lit("i"), Lit("t"), Lit("l"), Lit("e"), Lit(":"),
          Star(Set(Space)), Opt(Quote),
          Grp(Plus(Set(Chars \ {"\"", Apostrophe, "\n"}))),
          Opt(Quote), Star(Set(Space)), Eol>>)

ToUpper(c) == IF c \in Lower THEN Ascii[Ord(c) - 29] ELSE c

ToLower(c) == IF c \in Upper THEN Ascii[Ord(c) + 29] ELSE c

\* str.title(): first letter of every word upper case, the other letters lower case
RECURSIVE TitleCaseFrom(_, _)
TitleCaseFrom(s, i) ==
    IF i > Len(s) THEN <<>>
    ELSE LET inWord == i > 1 /\ s[i - 1] \in Upper \cup Lower
         IN <<IF inWord THEN ToLower(s[i]) ELSE ToUpper(s[i])>>
            \o TitleCaseFrom(s, i + 1)

TitleCase(s) == TitleCaseFrom(s, 1)

\* filepath.stem.replace('-', ' ').replace('_', ' ').title()
FallbackTitle(filepath) ==
    TitleCase(Replace(Replace(PathStem(filepath), <<"-">>, <<" ">>), <<"_">>, <<" ">>))

extract_frontmatter_title(c, filepath) ==
    LET frontmatter_match == MatchAt(FrontmatterRe, c, 1)
        frontmatter == SubSeq(c, frontmatter_match.gs, frontmatter_match.ge - 1)
        title_match == Search(TitleRe, frontmatter)
    IN IF frontmatter_match # Fail /\ title_match # Fail
       THEN Strip(SubSeq(frontmatter, title_match.gs, title_match.ge - 1))
       ELSE FallbackTitle(filepath)

(***************************************************************************)
(* strip_frontmatter                                                       *)
(***************************************************************************)

\* r'^---\s*\n.*?\n---\s*\n' with re.DOTALL
StripFrontmatterRe ==
    Cat(<<Bos, Dashes, Star(Set(Space)), Lit("\n"), LazyStar(Set(Chars)),
          Lit("\n"), Dashes, Star(Set(Space)), Lit("\n")>>)

strip_frontmatter(c) == Sub(StripFrontmatterRe, <<>>, c)

(***************************************************************************)
(* strip_mdx_components                                                    *)
(***************************************************************************)

\* <[A-Z][a-zA-Z]*
TagName == Cat(<<Lit("<"), Set(Upper), Star(Set(Upper \cup Lower))>>)

NotGt == Set(Chars \ {">"})

\* r'<[A-Z][a-zA-Z]*\s+[^>]*/>'
SelfClosingRe ==
    Cat(<<TagName, Plus(Set(Space)), Star(NotGt), Lit("/"), Lit(">")>>)

\* r'<[A-Z][a-zA-Z]*(?:\s+[^>]*)?>'
OpeningRe ==
    Cat(<<TagName, Opt(Cat(<<Plus(Set(Space)), Star(NotGt)>>)), Lit(">")>>)

\* r'</[A-Z][a-zA-Z]*>'
ClosingRe ==
    Cat(<<Lit("<"), Lit("/"), Set(Upper), Star(Set(Upper \cup Lower)), Lit(">")>>)

\* r'<[A-Z][a-zA-Z]*\s*/>'
MalformedRe == Cat(<<TagName, Star(Set(Space)), Lit("/"), Lit(">")>>)

strip_mdx_components(c) ==
    Sub(MalformedRe, <<>>,
        Sub(ClosingRe, <<>>,
            Sub(OpeningRe, <<>>,
                Sub(SelfClosingRe, <<>>, c))))

(***************************************************************************)
(* clean_whitespace                                                        *)
(***************************************************************************)

Fence == Cat(<<Lit(Backtick), Lit(Backtick), Lit(Backtick)>>)

\* r'```[\s\S]*?```'
CodeBlockRe == Cat(<<Fence, LazyStar(Set(Chars)), Fence>>)

\* f'__CODE_BLOCK_{n}__'
Placeholder(n) ==
    <<"_", "_", "C", "O", "D", "E", "_", "B", "L", "O", "C", "K", "_">>
    \o Str(n) \o <<"_", "_">>

\* re.sub(r'```[\s\S]*?```', save_code_block, content): the text with every
\* block replaced by its placeholder, and the list of the blocks
RECURSIVE SaveCodeBlocksFrom(_, _, _)
SaveCodeBlocksFrom(s, i, code_blocks) ==
    IF i > Len(s) THEN [content |-> <<>>, code_blocks |-> code_blocks]
    ELSE LET m == MatchAt(CodeBlockRe, s, i)
         IN IF m = Fail
            THEN LET r == SaveCodeBlocksFrom(s, i + 1, code_blocks)
                 IN [r EXCEPT !.content = <<s[i]>> \o @]
            ELSE LET r == SaveCodeBlocksFrom(s, m.pos,
                              Append(code_blocks, SubSeq(s, i, m.pos - 1)))
                 IN [r EXCEPT !.content = Placeholder(Len(code_blocks)) \o @]

SaveCodeBlocks(s) == SaveCodeBlocksFrom(s, 1, <<>>)

\* r'\n{3,}'
BlankLinesRe == Rep(Lit("\n"), 3, Inf, TRUE)

CollapseBlankLines(c) == Sub(BlankLinesRe, <<"\n", "\n">>, c)

\* r'[ \t]+$' with re.MULTILINE
TrailingRe == Cat(<<Plus(Set({" ", "\t"})), Eol>>)

TrimTrailing(c) == Sub(TrailingRe, <<>>, c)

\* for i, block in enumerate(code_blocks): content = content.replace(...)
RECURSIVE RestoreCodeBlocks(_, _, _)
RestoreCodeBlocks(c, code_blocks, i) ==
    IF i > Len(code_blocks) THEN c
    ELSE RestoreCodeBlocks(Replace(c, Placeholder(i - 1), code_blocks[i]),
                           code_blocks, i + 1)

clean_whitespace(c) ==
    LET saved == SaveCodeBlocks(c)
    IN Strip(RestoreCodeBlocks(TrimTrailing(CollapseBlankLines(saved.content)),
                               saved.code_blocks, 1))

(***************************************************************************)
(* process_mdx_file                                                        *)
(***************************************************************************)

\* (title, str(relative_path), content) for a file whose text is c
process_mdx_file(filepath, docs_dir, c) ==
    [title |-> extract_frontmatter_title(c, filepath),
     source |-> RelativeTo(filepath, docs_dir),
     content |-> clean_whitespace(strip_mdx_components(strip_frontmatter(c)))]

(***************************************************************************)
(* Bounded inputs                                                          *)
(***************************************************************************)

RECURSIVE Flatten(_)
Flatten(w) == IF w = <<>> THEN <<>> ELSE Head(w) \o Flatten(Tail(w))

\* the texts made of at most n tokens
TextsOf(Tokens, n) == {Flatten(w) : w \in UNION {[1..k -> Tokens] : k \in 0..n}}

MaxStripLen == 6

StripTokens == {<<"<">>, <<">">>, <<"/">>, <<"C">>, <<"b">>, <<" ">>}

MaxCleanLen == 6

Fence3 == <<Backtick, Backtick, Backtick>>

CleanTokens == {<<"\n">>, <<" ">>, <<"a">>, Fence3}

MaxProcessLen == 5

ProcessTokens ==
    {Fence3, <<"<", "C", ">">>, <<"-", "-", "-", "\n">>, <<"a">>,
     <<"\n", "\n", "\n", "\n", "\n", "\n">>}

MaxValueLen == 3

ValueTokens == {<<"A">>, <<" ">>, <<Apostrophe>>, <<"\"">>}

\* the file the functions under study are applied to
StudyPath == <<"/", "d", "/", "m", "y", "-", "f", ".", "m", "d", "x">>

(***************************************************************************)
(* The functions under study, applied to bounded inputs                    *)
(***************************************************************************)

ProgIdle ==
    /\ fs = <<>>
    /\ mdx_files = <<>>
    /\ idx = 0
    /\ sections = <<>>
    /\ processed_count = 0
    /\ skipped_count = 0
    /\ failed_files = <<>>
    /\ output = <<>>
    /\ written = <<>>
    /\ stdout = <<>>
    /\ exit_status = -1

InitStrip ==
    /\ ProgIdle
    /\ pc = "strip"
    /\ text \in TextsOf(StripTokens, MaxStripLen)
    /\ value = <<>>
    /\ content = text
    /\ first = <<>>
    /\ title = <<>>

StripOnce ==
    /\ pc = "strip"
    /\ first' = strip_mdx_components(content)
    /\ content' = first'
    /\ pc' = "again"
    /\ UNCHANGED <<progVars, text, value, title>>

StripAgain ==
    /\ pc = "again"
    /\ content' = strip_mdx_components(content)
    /\ pc' = "done"
    /\ UNCHANGED <<progVars, text, value, first, title>>

NextStrip == StripOnce \/ StripAgain

SpecStrip == InitStrip /\ [][NextStrip]_vars

InitClean ==
    /\ ProgIdle
    /\ pc = "clean"
    /\ text \in TextsOf(CleanTokens, MaxCleanLen)
    /\ value = <<>>
    /\ content = text
    /\ first = <<>>
    /\ title = <<>>

CleanWhitespace ==
    /\ pc = "clean"
    /\ content' = clean_whitespace(content)
    /\ pc' = "done"
    /\ UNCHANGED <<progVars, text, value, first, title>>

NextClean == CleanWhitespace

SpecClean == InitClean /\ [][NextClean]_vars

InitProcess ==
    /\ ProgIdle
    /\ pc = "read"
    /\ text \in TextsOf(ProcessTokens, MaxProcessLen)
    /\ value = <<>>
    /\ content = <<>>
    /\ first = <<>>
    /\ title = <<>>

ReadFile ==
    /\ pc = "read"
    /\ content' = text
    /\ pc' = "title"
    /\ UNCHANGED <<progVars, text, value, first, title>>

ExtractTitle ==
    /\ pc = "title"
    /\ title' = extract_frontmatter_title(content, StudyPath)
    /\ pc' = "frontmatter"
    /\ UNCHANGED <<progVars, text, value, content, first>>

StripFrontmatter ==
    /\ pc = "frontmatter"
    /\ content' = strip_frontmatter(content)
    /\ pc' = "components"
    /\ UNCHANGED <<progVars, text, value, first, title>>

StripComponents ==
    /\ pc = "components"
    /\ content' = strip_mdx_components(content)
    /\ pc' = "whitespace"
    /\ UNCHANGED <<progVars, text, value, first, title>>

CleanBody ==
    /\ pc = "whitespace"
    /\ content' = clean_whitespace(content)
    /\ pc' = "done"
    /\ UNCHANGED <<progVars, text, value, first, title>>

NextProcess ==
    ReadFile \/ ExtractTitle \/ StripFrontmatter \/ StripComponents \/ CleanBody

SpecProcess == InitProcess /\ [][NextProcess]_vars

\* a header whose title line holds v between the quotes q, after the spaces sp,
\* with the other lines before and after it
HeaderText(before, sp, q, v, after) ==
    <<"-", "-", "-", "\n">> \o before
    \o <<"t", "i", "t", "l", "e", ":">> \o sp \o q \o v \o q \o <<"\n">>
    \o after \o <<"-", "-", "-", "\n">> \o <<"H", "i">>

\* the values of a title line: not blank, with quote characters only inside
TitleValues ==
    {v \in TextsOf(ValueTokens, MaxValueLen) :
        /\ Strip(v) # <<>>
        /\ Head(Strip(v)) \notin {"\"", Apostrophe}
        /\ Strip(v)[Len(Strip(v))] \notin {"\"", Apostrophe}}

OtherLines == {<<>>, <<"d", ":", " ", "x", "\n">>}

InitTitle ==
    /\ ProgIdle
    /\ pc = "title"
    /\ value \in TitleValues
    /\ \E before \in OtherLines, after \in OtherLines,
          sp \in {<<>>, <<" ">>},
          q \in {<<>>, <<"\"">>, <<Apostrophe>>} :
          text = HeaderText(before, sp, q, value, after)
    /\ content = text
    /\ first = <<>>
    /\ title = <<>>

NextTitle == ExtractTitle

SpecTitle == InitTitle /\ [][NextTitle]_vars

(***************************************************************************)
(* The file system and the rendering of the output                        *)
(***************************************************************************)

\* the paths, relative to the docs directory, a run may find a file at
RelPaths ==
    {<<"a", ".", "m", "d", "x">>,
     <<"b", "-", "c", ".", "m", "d", "x">>,
     <<"s", "n", "i", "p", "p", "e", "t", "s", ".", "m", "d", "x">>,
     <<"s", "n", "i", "p", "p", "e", "t", "s", "/", "a", ".", "m", "d", "x">>,
     <<"s", "n", "i", "p", "p", "e", "t", "s", "\\", "a", ".", "m", "d", "x">>,
     <<"z", "/", "s", "n", "i", "p", "p", "e", "t", "s", "/", "a", ".", "m", "d", "x">>}

\* the texts a readable file may hold
FileTexts ==
    {<<"H", "i">>,
     <<"-", "-", "-", "\n", "t", "i", "t", "l", "e", ":", " ", "\"", "A",
       "\"", "\n", "-", "-", "-", "\n", "H", "e", "l", "l", "o", " ", "<",
       "C", "a", "r", "d", ">", "W", "o", "r", "l", "d", "<", "/", "C",
       "a", "r", "d", ">">>}

Absent == [kind |-> "absent", data |-> <<>>]

\* a file whose open() or read() raises
Unreadable == [kind |-> "unreadable", data |-> <<>>]

FileStates == {Absent, Unreadable} \cup {[kind |-> "text", data |-> t] : t \in FileTexts}

\* the most files a run finds
MaxFiles == 3

Existing(f) == {p \in RelPaths : f[p].kind # "absent"}

\* glob.glob(docs_dir/**/*.mdx, recursive=True): the files, in any order
GlobResults(f) ==
    LET found == {Join(DocsDir, p) : p \in Existing(f)}
        n == Cardinality(found)
    IN {g \in [1..n -> found] : \A i, j \in 1..n : g[i] = g[j] => i = j}

RECURSIVE Insert(_, _)
Insert(x, s) ==
    IF s = <<>> THEN <<x>>
    ELSE IF StrLess(x, Head(s)) THEN <<x>> \o s
    ELSE <<Head(s)>> \o Insert(x, Tail(s))

\* the paths left in the order glob returned them
SortedAsFound(s) == s

\* sorted(paths)
RECURSIVE Sorted(_)
Sorted(s) == IF s = <<>> THEN <<>> ELSE Insert(Head(s), Sorted(Tail(s)))

SnippetsSlash == <<"s", "n", "i", "p", "p", "e", "t", "s", "/">>

SnippetsBackslash == <<"s", "n", "i", "p", "p", "e", "t", "s", "\\">>

\* no file is excluded
ShouldIncludeAnyFile(filepath, docs_dir) == TRUE

should_include_file(filepath, docs_dir) ==
    LET relative_str == RelativeTo(filepath, docs_dir)
    IN IF StartsWith(relative_str, SnippetsSlash)
          \/ StartsWith(relative_str, SnippetsBackslash)
       THEN FALSE
       ELSE TRUE

\* the separator line: 80 times =
Sep == [i \in 1..80 |-> "="]

\* the section f-string of compile_docs
Section(t, source, c) ==
    Sep \o <<"\n">>
    \o <<"S", "E", "C", "T", "I", "O", "N", ":", " ">> \o t \o <<"\n">>
    \o <<"S", "O", "U", "R", "C", "E", ":", " ">> \o source \o <<"\n">>
    \o Sep \o <<"\n">>
    \o <<"\n">>
    \o c \o <<"\n">>

\* the header f-string of compile_docs
Header(n) ==
    <<"C", "h", "a", "t", "A", "d", "s", " ", "D", "o", "c", "u", "m", "e",
      "n", "t", "a", "t", "i", "o", "n", "\n", "G", "e", "n", "e", "r",
      "a", "t", "e", "d", " ", "f", "o", "r", " ", "S", "u", "p", "p", "o",
      "r", "t", " ", "C", "h", "a", "t", "b", "o", "t", " ", "C", "o", "n",
      "t", "e", "x", "t", "\n">>
    \o Sep \o
    <<"\n", "\n", "T", "h", "i", "s", " ", "f", "i", "l", "e", " ", "c",
      "o", "n", "t", "a", "i", "n", "s", " ", "t", "h", "e", " ", "c", "o",
      "m", "p", "l", "e", "t", "e", " ", "C", "h", "a", "t", "A", "d", "s",
      " ", "d", "o", "c", "u", "m", "e", "n", "t", "a", "t", "i", "o", "n",
      " ", "c", "o", "m", "p", "i", "l", "e", "d", " ", "f", "r", "o", "m",
      " ">>
    \o Str(n) \o
    <<" ", "p", "a", "g", "e", "s", ".", "\n", "U", "s", "e", " ", "t",
      "h", "i", "s", " ", "a", "s", " ", "c", "o", "n", "t", "e", "x", "t",
      " ", "w", "h", "e", "n", " ", "a", "n", "s", "w", "e", "r", "i", "n",
      "g", " ", "u", "s", "e", "r", " ", "q", "u", "e", "s", "t", "i", "o",
      "n", "s", " ", "a", "b", "o", "u", "t", " ", "C", "h", "a", "t", "A",
      "d", "s", ".", "\n", "\n">>

\* sep.join(parts)
RECURSIVE JoinWith(_, _)
JoinWith(sep, parts) ==
    IF parts = <<>> THEN <<>>
    ELSE IF Len(parts) = 1 THEN parts[1]
    ELSE parts[1] \o sep \o JoinWith(sep, Tail(parts))

(***************************************************************************)
(* main and compile_docs                                                   *)
(***************************************************************************)

FunIdle ==
    /\ text = <<>>
    /\ value = <<>>
    /\ content = <<>>
    /\ first = <<>>
    /\ title = <<>>

Init ==
    /\ FunIdle
    /\ pc = "start"
    /\ fs \in {f \in [RelPaths -> FileStates] : Cardinality(Existing(f)) <= MaxFiles}
    /\ mdx_files = <<>>
    /\ idx = 0
    /\ sections = <<>>
    /\ processed_count = 0
    /\ skipped_count = 0
    /\ failed_files = <<>>
    /\ output = <<>>
    /\ written = <<>>
    /\ stdout = <<>>
    /\ exit_status = -1

\* main prints its banner and calls compile_docs, which lists the files
Discover ==
    /\ pc = "start"
    /\ \E g \in GlobResults(fs) : mdx_files' = Sorted(g)
    /\ idx' = 0
    /\ sections' = <<>>
    /\ processed_count' = 0
    /\ skipped_count' = 0
    /\ failed_files' = <<>>
    /\ stdout' = Append(stdout, <<"banner">>)
    /\ pc' = "loop"
    /\ UNCHANGED <<fs, output, written, exit_status, funVars>>

\* the file the loop visits next
Current == mdx_files[idx + 1]

CurrentFile == fs[RelativeTo(Current, DocsDir)]

\* the loop body for a file should_include_file rejects
LoopSkip ==
    /\ pc = "loop"
    /\ idx < Len(mdx_files)
    /\ ~should_include_file(Current, DocsDir)
    /\ skipped_count' = skipped_count + 1
    /\ idx' = idx + 1
    /\ UNCHANGED <<pc, fs, mdx_files, sections, processed_count, failed_files,
                   output, written, stdout, exit_status, funVars>>

\* the loop body for an included file that process_mdx_file returns for
LoopProcess ==
    /\ pc = "loop"
    /\ idx < Len(mdx_files)
    /\ should_include_file(Current, DocsDir)
    /\ CurrentFile.kind = "text"
    /\ LET r == process_mdx_file(Current, DocsDir, CurrentFile.data)
       IN sections' = Append(sections, Section(r.title, r.source, r.content))
    /\ processed_count' = processed_count + 1
    /\ idx' = idx + 1
    /\ UNCHANGED <<pc, fs, mdx_files, skipped_count, failed_files,
                   output, written, stdout, exit_status, funVars>>

\* the exception ends the loop instead of the iteration
LoopFailAborts ==
    /\ pc = "loop"
    /\ idx < Len(mdx_files)
    /\ should_include_file(Current, DocsDir)
    /\ CurrentFile.kind = "unreadable"
    /\ stdout' = Append(stdout, <<"warning", Current>>)
    /\ failed_files' = Append(failed_files, Current)
    /\ idx' = Len(mdx_files)
    /\ UNCHANGED <<pc, fs, mdx_files, sections, processed_count, skipped_count,
                   output, written, exit_status, funVars>>

\* the loop body for an included file that process_mdx_file raises on
LoopFail ==
    /\ pc = "loop"
    /\ idx < Len(mdx_files)
    /\ should_include_file(Current, DocsDir)
    /\ CurrentFile.kind = "unreadable"
    /\ stdout' = Append(stdout, <<"warning", Current>>)
    /\ failed_files' = Append(failed_files, Current)
    /\ idx' = idx + 1
    /\ UNCHANGED <<pc, fs, mdx_files, sections, processed_count, skipped_count,
                   output, written, exit_status, funVars>>

\* the header counts the files found instead of the files processed
AssembleCountsAll ==
    /\ pc = "loop"
    /\ idx = Len(mdx_files)
    /\ output' = Header(Len(mdx_files)) \o JoinWith(<<"\n", "\n">>, sections)
    /\ stdout' = stdout
                 \o <<<<"summary", processed_count, skipped_count>>>>
                 \o (IF failed_files # <<>>
                     THEN <<<<"failed", Len(failed_files), failed_files>>>>
                     ELSE <<>>)
    /\ pc' = "mkdir"
    /\ UNCHANGED <<fs, mdx_files, idx, sections, processed_count, skipped_count,
                   failed_files, written, exit_status, funVars>>

\* after the loop: the header, the join, the summary, the return to main
Assemble ==
    /\ pc = "loop"
    /\ idx = Len(mdx_files)
    /\ output' = Header(processed_count) \o JoinWith(<<"\n", "\n">>, sections)
    /\ stdout' = stdout
                 \o <<<<"summary", processed_count, skipped_count>>>>
                 \o (IF failed_files # <<>>
                     THEN <<<<"failed", Len(failed_files), failed_files>>>>
                     ELSE <<>>)
    /\ pc' = "mkdir"
    /\ UNCHANGED <<fs, mdx_files, idx, sections, processed_count, skipped_count,
                   failed_files, written, exit_status, funVars>>

\* output_path.parent.mkdir(parents=True, exist_ok=True) returns
MkdirOk ==
    /\ pc = "mkdir"
    /\ pc' = "write"
    /\ UNCHANGED <<progVars, funVars>>

\* mkdir raises OSError; nothing catches it, the interpreter exits with 1
MkdirFail ==
    /\ pc = "mkdir"
    /\ exit_status' = 1
    /\ pc' = "exited"
    /\ UNCHANGED <<fs, mdx_files, idx, sections, processed_count, skipped_count,
                   failed_files, output, written, stdout, funVars>>

\* the write succeeds; main prints the report and returns
WriteOk ==
    /\ pc = "write"
    /\ written' = output
    /\ stdout' = stdout \o <<<<"written">>, <<"size", Len(output)>>, <<"ready">>>>
    /\ exit_status' = 0
    /\ pc' = "exited"
    /\ UNCHANGED <<fs, mdx_files, idx, sections, processed_count, skipped_count,
                   failed_files, output, funVars>>

\* open() or write() raises IOError or OSError: the handler prints and exits
WriteFail ==
    /\ pc = "write"
    /\ stdout' = stdout \o <<<<"critical">>, <<"error">>>>
    /\ exit_status' = 1
    /\ pc' = "exited"
    /\ UNCHANGED <<fs, mdx_files, idx, sections, processed_count, skipped_count,
                   failed_files, output, written, funVars>>

Next ==
    \/ Discover
    \/ LoopSkip
    \/ LoopProcess
    \/ LoopFail
    \/ Assemble
    \/ MkdirOk
    \/ MkdirFail
    \/ WriteOk
    \/ WriteFail

Spec == Init /\ [][Next]_vars

(***************************************************************************)
(* Properties                                                              *)
(***************************************************************************)

\* sub occurs in s
Contains(s, sub) == \E i \in 1..(Len(s) - Len(sub) + 1) : StartsWithAt(s, sub, i)

\* the number of places sub occurs at in s
Count(s, sub) == Cardinality({i \in 1..Len(s) : StartsWithAt(s, sub, i)})

\* the first place sub occurs at in s, 0 if none
IndexOf(s, sub) ==
    LET hits == {i \in 1..Len(s) : StartsWithAt(s, sub, i)}
    IN IF hits = {} THEN 0 ELSE CHOOSE i \in hits : \A k \in hits : i <= k

InSeq(x, s) == \E i \in 1..Len(s) : s[i] = x

\* the fenced code blocks of a text
CodeBlocksOf(s) ==
    LET blocks == SaveCodeBlocks(s).code_blocks
    IN {blocks[i] : i \in 1..Len(blocks)}

\* the text outside the fenced code blocks of s
OutsideCodeBlocks(s) == SaveCodeBlocks(s).content

\* a tag whose name starts with a lower case letter
LowerTagRe ==
    Cat(<<Lit("<"), Opt(Lit("/")), Set(Lower), Star(Set(Chars \ {"<", ">"})),
          Lit(">")>>)

LowerTagsOf(s) ==
    {SubSeq(s, i, MatchAt(LowerTagRe, s, i).pos - 1) :
        i \in {j \in 1..Len(s) : MatchAt(LowerTagRe, s, j) # Fail}}

\* a relative path under the snippets directory
IsSnippetPath(rel) ==
    StartsWith(rel, SnippetsSlash) \/ StartsWith(rel, SnippetsBackslash)

\* the SOURCE line of the section of the file at rel
SourceLineOf(rel) ==
    <<"\n", "S", "O", "U", "R", "C", "E", ":", " ">> \o rel \o <<"\n">>

\* the first line of every section and the start of its second
SectionStart == Sep \o <<"\n", "S", "E", "C", "T", "I", "O", "N", ":", " ">>

\* the existing files outside the snippets directory
Included == {p \in Existing(fs) : ~IsSnippetPath(p)}

Readable == {p \in Included : fs[p].kind = "text"}

\* the section of the readable file at rel
SectionFor(rel) ==
    LET r == process_mdx_file(Join(DocsDir, rel), DocsDir, fs[rel].data)
    IN Section(r.title, r.source, r.content)

\* the run ended after writing the output file
Finished == pc = "exited" /\ exit_status = 0

\* C1: every fenced code block of the file text is part of the cleaned body
\* process_mdx_file produces, unchanged.
C1_CodeBlocksPreserved ==
    pc = "done" => \A block \in CodeBlocksOf(text) : Contains(content, block)

\* C2: the result of clean_whitespace has no three consecutive newlines
\* outside its fenced code blocks.
C2_NoThreeNewlines ==
    pc = "done" => ~Contains(OutsideCodeBlocks(content), <<"\n", "\n", "\n">>)

\* C3: strip_mdx_components is idempotent: a second pass changes nothing.
C3_StripIdempotent == pc = "done" => content = first

\* C8: every lower-case-named tag of the input is still in the output of
\* strip_mdx_components, as many times as in the input or more.
C8_LowerTagsKept ==
    pc \in {"again", "done"} =>
        \A tag \in LowerTagsOf(text) : Count(first, tag) >= Count(text, tag)

\* C7: for a header whose title line holds a value, optionally quoted,
\* extract_frontmatter_title returns the value without its surrounding
\* whitespace, never the title derived from the file name.
C7_TitleIsHeaderValue == pc = "frontmatter" => title = Strip(value)

\* C4: a file under snippets/ or snippets\ has no section in the sections, in
\* the output or in the failure list, and is counted as skipped.
C4_SnippetsNeverIncluded ==
    /\ \A p \in RelPaths :
          IsSnippetPath(p) =>
              /\ \A i \in 1..Len(sections) : ~Contains(sections[i], SourceLineOf(p))
              /\ ~Contains(output, SourceLineOf(p))
              /\ ~Contains(written, SourceLineOf(p))
              /\ ~InSeq(Join(DocsDir, p), failed_files)
    /\ pc = "loop" =>
          skipped_count =
              Cardinality({i \in 1..idx : IsSnippetPath(RelativeTo(mdx_files[i], DocsDir))})
    /\ pc \notin {"start", "loop"} =>
          skipped_count = Cardinality({p \in Existing(fs) : IsSnippetPath(p)})

\* C4 witness: a run that wrote sections while a readable file lay under snippets/
C4_Witness ==
    /\ Finished
    /\ Len(sections) >= 1
    /\ \E p \in RelPaths : IsSnippetPath(p) /\ fs[p].kind = "text"

\* C5: when the run has written the output, every included file that can be
\* processed has its section in it, every included file that raised is in the
\* failure list and has no section, and the count is that of the successes.
C5_FailureDoesNotStopTheRest ==
    Finished =>
        /\ \A p \in Readable : Contains(written, SectionFor(p))
        /\ \A p \in Included \ Readable :
              /\ InSeq(Join(DocsDir, p), failed_files)
              /\ ~Contains(written, SourceLineOf(p))
        /\ Len(failed_files) = Cardinality(Included \ Readable)
        /\ processed_count = Cardinality(Readable)

\* C5 witness: one file failed, two were processed, one of them after the failure
C5_Witness ==
    /\ Finished
    /\ Len(failed_files) = 1
    /\ processed_count = 2
    /\ \E p \in Readable : StrLess(failed_files[1], Join(DocsDir, p))

\* C6: in the written output the section of p comes before the section of q
\* whenever the absolute path of p sorts before that of q.
C6_SectionsInPathOrder ==
    Finished =>
        \A p, q \in Readable :
            StrLess(Join(DocsDir, p), Join(DocsDir, q)) =>
                /\ IndexOf(written, SectionFor(p)) > 0
                /\ IndexOf(written, SectionFor(p)) < IndexOf(written, SectionFor(q))

\* C6 witness: two sections written, with skipped or failed files in the run
C6_Witness ==
    /\ Finished
    /\ Len(sections) >= 2
    /\ skipped_count + Len(failed_files) >= 1

\* C9: the run exits with a non-zero status only after the handler of the
\* write failure has printed its diagnostic.
C9_NonZeroOnlyOnWriteFailure ==
    exit_status > 0 => \E i \in 1..Len(stdout) : stdout[i][1] = "critical"

\* C10: in the loop the three outcomes add up to the files visited and the
\* count is the number of sections; after it no file has two outcomes, the
\* skipped count is that of the files with neither, and the header states
\* the number of sections of the output.
C10_CountsPartitionTheFiles ==
    /\ pc = "loop" =>
          /\ processed_count + skipped_count + Len(failed_files) = idx
          /\ processed_count = Len(sections)
    /\ pc \notin {"start", "loop"} =>
          /\ processed_count + skipped_count + Len(failed_files) = Len(mdx_files)
          /\ processed_count = Len(sections)
          /\ \A p \in Existing(fs) :
                ~(Contains(output, SourceLineOf(p)) /\ InSeq(Join(DocsDir, p), failed_files))
          /\ skipped_count =
                Cardinality({p \in Existing(fs) :
                    /\ ~Contains(output, SourceLineOf(p))
                    /\ ~InSeq(Join(DocsDir, p), failed_files)})
          /\ StartsWith(output, Header(Count(output, SectionStart)))
          /\ Count(output, SectionStart) = Len(sections)

\* C10 witness: a finished run with a section, a skipped file and a failed file
C10_Witness ==
    /\ Finished
    /\ processed_count >= 1
    /\ skipped_count >= 1
    /\ Len(failed_files) >= 1

====
